---- MODULE Spec2Model ----
(***************************************************************************)
(* Model of claude-artifact-unpacker: the marker-based stream segmenter    *)
(* (unpack_artifact.process_input), the project-name resolution of         *)
(* unpack_artifact.create_project / find_project_name, and the control     *)
(* flow of unpack_artifact.main around them.                               *)
(*                                                                         *)
(* A Python str is modelled as a sequence of one-character strings, so     *)
(* that startswith / endswith / slicing / join are computed, not assumed.  *)
(* Python's None is the one-element sequence <<"None">>, which is not a    *)
(* sequence of characters and so differs from every str, "" included.      *)
(***************************************************************************)
EXTENDS Naturals, Sequences, FiniteSets, TLC

VARIABLES
    pc,                 \* "loop": inside `for line in input_stream`; "done": returned
    consumed,           \* the raw lines the iterator has yielded so far (history)
    current_file,       \* process_input local
    current_content,    \* process_input local: list of lines
    files_to_process,   \* process_input local: list of (filepath, content)
    marker_style,       \* process_input local
    branch,             \* which branch of the loop body the last line took (history)
    opened_at,          \* index in consumed of the line that set current_file (history)
    origin,             \* per emitted record, the index of the line that opened it (history)
    markers,            \* indices of the lines for which is_new_file was true (history)
    cpc,                \* create_project: "idle", "start", "returned", "named", "raised", "created", "written"
    args_name,          \* main: args.name, the --name option (None when absent)
    files,              \* create_project argument: list of (filepath, content)
    project_name,       \* create_project argument and local
    fs,                 \* names of the entries of the working directory
    fpc,                \* find_project_name: "idle", "call", "returned", "raised"
    manifest,           \* find_project_name arguments: (filepath, package_content)
    extracted,          \* find_project_name local `name` before line 102 (history)
    found_name,         \* the value find_project_name returns
    mpc,                \* main: "idle", "stdin", "loop", "parsing", "check", "create", "exited"
    args_files,         \* main: args.files, the input files named on the command line
    next_input,         \* main: index in args.files of the input_file of the loop
    all_files,          \* main local
    exit_status,        \* the status the process exits with (None while it runs)
    stderr              \* what main printed on error_console (None when nothing)

segvars == <<pc, consumed, current_file, current_content, files_to_process,
             marker_style, branch, opened_at, origin, markers>>

resvars == <<cpc, args_name, files, project_name, fs>>

findvars == <<fpc, manifest, extracted, found_name>>

mainvars == <<mpc, args_files, next_input, all_files, exit_status, stderr>>

vars == <<segvars, resvars, findvars, mainvars>>

----------------------------------------------------------------------------
(* Bounds of the model *)

\* longest input stream explored, in lines
MaxLines == 5

----------------------------------------------------------------------------
(* Python values and str primitives *)

None == <<"None">>

NL == "\n"

\* Python truthiness of `str | None`: None and "" are falsy
Truthy(v) == v # None /\ v # <<>>

\* s.startswith(p)
StartsWith(s, p) == Len(s) >= Len(p) /\ SubSeq(s, 1, Len(p)) = p

\* s.endswith(p)
EndsWith(s, p) == Len(s) >= Len(p) /\ SubSeq(s, Len(s) - Len(p) + 1, Len(s)) = p

\* s[n:]
DropFirst(s, n) == SubSeq(s, n + 1, Len(s))

\* lst[:-1]
AllButLast(lst) == SubSeq(lst, 1, Len(lst) - 1)

\* s.rstrip('\n'): every trailing newline goes
RECURSIVE RStripNL(_)
RStripNL(s) ==
    IF s # <<>> /\ s[Len(s)] = NL THEN RStripNL(AllButLast(s)) ELSE s

\* '\n'.join(lst)
RECURSIVE JoinNL(_)
JoinNL(lst) ==
    IF lst = <<>> THEN <<>>
    ELSE IF Len(lst) = 1 THEN lst[1]
    ELSE lst[1] \o <<NL>> \o JoinNL(Tail(lst))

----------------------------------------------------------------------------
(* More str primitives, used by the name resolver *)

LowerCase ==
    {"a", "b", "c", "d", "e", "f", "g", "h", "i", "j", "k", "l", "m",
     "n", "o", "p", "q", "r", "s", "t", "u", "v", "w", "x", "y", "z"}

UpperCase ==
    {"A", "B", "C", "D", "E", "F", "G", "H", "I", "J", "K", "L", "M",
     "N", "O", "P", "Q", "R", "S", "T", "U", "V", "W", "X", "Y", "Z"}

DigitChars == {"0", "1", "2", "3", "4", "5", "6", "7", "8", "9"}

\* the regex class \w, on the ASCII characters the model uses
WordChars == LowerCase \cup UpperCase \cup DigitChars \cup {"_"}

\* the characters str.strip() and the regex class \s remove
Whitespace == {" ", "\t", "\n", "\r"}

\* the first index at which character c occurs in s, 0 when it does not
IndexOf(s, c) ==
    IF \E i \in 1..Len(s) : s[i] = c
    THEN CHOOSE i \in 1..Len(s) : s[i] = c /\ \A j \in 1..(i - 1) : s[j] # c
    ELSE 0

\* sub in s
Contains(s, sub) ==
    \E i \in 1..(Len(s) + 1) :
        i + Len(sub) - 1 <= Len(s) /\ SubSeq(s, i, i + Len(sub) - 1) = sub

\* s.split(c), for a one-character separator
RECURSIVE SplitOn(_, _)
SplitOn(s, c) ==
    LET i == IndexOf(s, c)
    IN IF i = 0 THEN <<s>>
       ELSE <<SubSeq(s, 1, i - 1)>> \o SplitOn(SubSeq(s, i + 1, Len(s)), c)

\* s.lstrip(chars)
RECURSIVE LStripSet(_, _)
LStripSet(s, chars) ==
    IF s # <<>> /\ s[1] \in chars THEN LStripSet(Tail(s), chars) ELSE s

\* s.rstrip(chars)
RECURSIVE RStripSet(_, _)
RStripSet(s, chars) ==
    IF s # <<>> /\ s[Len(s)] \in chars THEN RStripSet(AllButLast(s), chars) ELSE s

\* s.strip(chars)
StripSet(s, chars) == RStripSet(LStripSet(s, chars), chars)

\* s.strip()
Strip(s) == StripSet(s, Whitespace)

\* the length of the longest prefix of s[i:] made of characters of `chars`
RECURSIVE RunLength(_, _, _)
RunLength(s, i, chars) ==
    IF i <= Len(s) /\ s[i] \in chars THEN 1 + RunLength(s, i + 1, chars) ELSE 0

\* the length of the longest prefix of s[i:] made of characters outside `chars`
RECURSIVE RunLengthNot(_, _, _)
RunLengthNot(s, i, chars) ==
    IF i <= Len(s) /\ s[i] \notin chars THEN 1 + RunLengthNot(s, i + 1, chars) ELSE 0

\* s[i:].startswith(p), i counted from 1
StartsWithAt(s, i, p) ==
    i + Len(p) - 1 <= Len(s) /\ SubSeq(s, i, i + Len(p) - 1) = p

\* the least element of a non-empty set of naturals
Least(S) == CHOOSE x \in S : \A y \in S : x <= y

\* the greatest element of a non-empty set of naturals
Greatest(S) == CHOOSE x \in S : \A y \in S : y <= x

\* str(i) for a natural number
RECURSIVE Decimal(_)
Decimal(i) ==
    LET digit == <<"0", "1", "2", "3", "4", "5", "6", "7", "8", "9">>
    IN IF i < 10 THEN <<digit[i + 1]>>
       ELSE Decimal(i \div 10) \o <<digit[(i % 10) + 1]>>


----------------------------------------------------------------------------
(* The two marker prefixes and the lines fed to the segmenter *)

SlashStyle == <<"/", "/", " ">>
HashStyle == <<"#", " ">>

\* the texts a line of the stream can have (before its newline)
Lines ==
    { <<>>,                                   \* blank line
      <<"x">>,                                \* plain content
      <<"/", "/", " ", "a">>,                 \* "// a"
      <<"#", " ", "b">>,                      \* "# b"
      <<"/", "/", " ", "[", "x", "]">>,       \* "// [x]"
      <<"#", " ", "[", "x", "]">>,            \* "# [x]"
      <<"/", "/", " ", "[", "x">>,            \* "// [x": bracket never closed
      <<"/", "/", " ">> }                     \* "// ": the prefix alone

\* what iterating a text stream yields: each line with its newline, and the
\* last line of the stream possibly without one (never the empty string)
RawLines == { l \o <<NL>> : l \in Lines } \cup (Lines \ {<<>>})

----------------------------------------------------------------------------
(* process_input, expression by expression *)

\* mutant: the style is detected again on every prefixed line
DetectStyle_Always(style, line) ==
    IF StartsWith(line, SlashStyle) THEN SlashStyle
    ELSE IF StartsWith(line, HashStyle) THEN HashStyle
    ELSE style

\* lines 154-155: the style is detected once, from the first prefixed line
DetectStyle(style, line) ==
    IF style = None /\ (StartsWith(line, SlashStyle) \/ StartsWith(line, HashStyle))
    THEN (IF StartsWith(line, SlashStyle) THEN SlashStyle ELSE HashStyle)
    ELSE style

\* mutant: no blank-line boundary is required (the legacy rule)
IsNewFile_NoBoundary(style, line, file, content) ==
    /\ style # None
    /\ StartsWith(line, style)
    /\ ~StartsWith(line, style \o <<"[">>)

\* lines 158-163 (and/or short-circuit as in Python)
IsNewFile(style, line, file, content) ==
    /\ style # None
    /\ StartsWith(line, style)
    /\ ~StartsWith(line, style \o <<"[">>)
    /\ (~Truthy(file) \/ content = <<>> \/ content[Len(content)] = <<>>)

\* mutant: the separator line is kept
ClosedContent_KeepAll(content) == JoinNL(content)

\* line 168: the content of the file a new marker closes
ClosedContent(content) ==
    JoinNL(IF content # <<>> THEN AllButLast(content) ELSE <<>>)

\* mutant: the prefix length is hard-coded to that of "# "
NewFilePath_HashLen(style, line) == DropFirst(line, 2)

\* mutant: the prefix is not removed
NewFilePath_WholeLine(style, line) == line

\* line 172
NewFilePath(style, line) == DropFirst(line, Len(style))

\* mutant: only the "// [" form is a placeholder
IsPlaceholder_SlashOnly(style, line) ==
    /\ StartsWith(line, SlashStyle \o <<"[">>)
    /\ EndsWith(line, <<"]">>)

\* line 176
IsPlaceholder(style, line) ==
    /\ style # None
    /\ StartsWith(line, style \o <<"[">>)
    /\ EndsWith(line, <<"]">>)

\* line 178
PlaceholderContent(style, line) == DropFirst(line, Len(style))

\* mutant: the guard is left out
FileOpen_Always(file) == TRUE

\* mutant: `if current_file is not None`
FileOpen_NotNone(file) == file # None

\* lines 175, 167, 185: `if current_file`
FileOpen(file) == Truthy(file)

\* mutant: the record takes the place of the last one emitted (the pop and
\* append of the legacy placeholder branch)
EmitRecord_ReplaceLast(records, record) ==
    IF records = <<>> THEN <<record>>
    ELSE Append(SubSeq(records, 1, Len(records) - 1), record)

\* lines 168, 178, 186: files_to_process.append((filepath, content))
EmitRecord(records, record) == Append(records, record)

\* mutant: the last line is dropped at end of input too
FinalContent_DropLast(content) ==
    JoinNL(IF content # <<>> THEN AllButLast(content) ELSE <<>>)

\* line 186
FinalContent(content) == JoinNL(content)

----------------------------------------------------------------------------
(* process_input as a state machine *)

SegInit ==
    /\ pc = "loop"
    /\ consumed = <<>>
    /\ current_file = None
    /\ current_content = <<>>
    /\ files_to_process = <<>>
    /\ marker_style = None
    /\ branch = "none"
    /\ opened_at = 0
    /\ origin = <<>>
    /\ markers = <<>>

\* the stream can yield another line: no line without a newline was yielded yet
StreamOpen ==
    IF consumed = <<>> THEN TRUE ELSE EndsWith(consumed[Len(consumed)], <<NL>>)

\* one iteration of the loop body, lines 150-182
ProcessLine(raw) ==
    /\ pc = "loop"
    /\ Len(consumed) < MaxLines
    /\ StreamOpen
    /\ LET line == RStripNL(raw)
           style == DetectStyle(marker_style, line)
       IN /\ marker_style' = style
          /\ consumed' = Append(consumed, raw)
          /\ IF IsNewFile(style, line, current_file, current_content)
             THEN /\ branch' = "new"
                  /\ markers' = Append(markers, Len(consumed) + 1)
                  /\ IF FileOpen(current_file)
                     THEN /\ files_to_process' =
                                EmitRecord(files_to_process,
                                           <<current_file, ClosedContent(current_content)>>)
                          /\ origin' = Append(origin, opened_at)
                          /\ current_content' = <<>>
                     ELSE UNCHANGED <<files_to_process, origin, current_content>>
                  /\ current_file' = NewFilePath(style, line)
                  /\ opened_at' = Len(consumed) + 1
             ELSE IF FileOpen(current_file)
             THEN IF IsPlaceholder(style, line)
                  THEN /\ branch' = "placeholder"
                       /\ UNCHANGED markers
                       /\ files_to_process' =
                             EmitRecord(files_to_process,
                                        <<current_file, PlaceholderContent(style, line)>>)
                       /\ origin' = Append(origin, opened_at)
                       /\ current_file' = None
                       /\ opened_at' = 0
                       /\ current_content' = <<>>
                  ELSE /\ branch' = "append"
                       /\ UNCHANGED markers
                       /\ current_content' = Append(current_content, line)
                       /\ UNCHANGED <<files_to_process, origin, current_file, opened_at>>
             ELSE /\ branch' = "ignore"
                  /\ UNCHANGED markers
                  /\ UNCHANGED <<files_to_process, origin, current_file, opened_at,
                                 current_content>>
    /\ pc' = "loop"
    /\ UNCHANGED <<resvars, findvars, mainvars>>

\* the stream is exhausted: lines 184-188
EndOfInput ==
    /\ pc = "loop"
    /\ pc' = "done"
    /\ branch' = "eof"
    /\ IF FileOpen(current_file)
       THEN /\ files_to_process' =
                  EmitRecord(files_to_process,
                             <<current_file, FinalContent(current_content)>>)
            /\ origin' = Append(origin, opened_at)
       ELSE UNCHANGED <<files_to_process, origin>>
    /\ UNCHANGED <<consumed, current_file, current_content, marker_style, opened_at,
                   markers>>
    /\ UNCHANGED <<resvars, findvars, mainvars>>

ReadLine == \E raw \in RawLines : ProcessLine(raw)

----------------------------------------------------------------------------
(* The texts the name resolver compares against *)

\* the manifest names, lines 200-204, in the order of the dict
PackageJson ==
    <<"p", "a", "c", "k", "a", "g", "e", ".", "j", "s", "o", "n">>

CargoToml ==
    <<"C", "a", "r", "g", "o", ".", "t", "o", "m", "l">>

PyprojectToml ==
    <<"p", "y", "p", "r", "o", "j", "e", "c", "t", ".", "t", "o", "m", "l">>

SetupPy ==
    <<"s", "e", "t", "u", "p", ".", "p", "y">>

GoMod ==
    <<"g", "o", ".", "m", "o", "d">>

\* the keys of config_files in insertion order, which is the order in which
\* a dict is iterated
ConfigOrder == <<PackageJson, CargoToml, PyprojectToml, SetupPy, GoMod>>

\* line 113
ProjectBase ==
    <<"p", "r", "o", "j", "e", "c", "t">>

\* line 68
ModulePrefix ==
    <<"m", "o", "d", "u", "l", "e", " ">>

\* line 83
NameKey ==
    <<"\"", "n", "a", "m", "e", "\"">>

\* line 35
NameEq ==
    <<"n", "a", "m", "e", " ", "=", " ">>

\* the word `name` of the regexes of lines 37 and 59, and the TOML key
NameWord ==
    <<"n", "a", "m", "e">>

\* line 59
SetupWord ==
    <<"s", "e", "t", "u", "p">>

\* the TOML keys of lines 30, 47 and 50
PackageWord == <<"p", "a", "c", "k", "a", "g", "e">>
ToolWord == <<"t", "o", "o", "l">>
PoetryWord == <<"p", "o", "e", "t", "r", "y">>
ProjectWord == <<"p", "r", "o", "j", "e", "c", "t">>

\* Python values that are not str: a dict (empty or not), and the exception
\* that leaves a function
EmptyDict == <<"dict", "empty">>
SomeDict == <<"dict", "nonempty">>
TypeError == <<"TypeError">>

IsStr(v) == v \notin {None, EmptyDict, SomeDict, TypeError}

\* truthiness of a value an extractor returns
NameTruthy(v) == v # None /\ v # <<>> /\ v # EmptyDict

----------------------------------------------------------------------------
(* tomli.loads, on the part of TOML the modelled manifests use: blank lines,
   comment lines, [dotted.table] headers and  bare-key = "basic string"
   pairs without escapes.  Any other line is a decode error.  A document is
   [ok, cur, tables, vals]: the tables declared by a header and the string
   at each dotted path. *)

BareKeyChars == WordChars \cup {"-"}

TomlSpace == {" ", "\t"}

IsBareKey(k) == k # <<>> /\ \A i \in 1..Len(k) : k[i] \in BareKeyChars

\* p is a prefix of q (or equal to it)
IsPrefix(p, q) == Len(p) <= Len(q) /\ SubSeq(q, 1, Len(p)) = p

\* each dotted part of a header, with the blanks around it removed
HeaderPath(inner) ==
    [i \in 1..Len(SplitOn(inner, ".")) |-> StripSet(SplitOn(inner, ".")[i], TomlSpace)]

\* a [table] header line naming `path`
TomlHeader(doc, closed, path) ==
    IF /\ closed
       /\ \A i \in 1..Len(path) : IsBareKey(path[i])
       /\ path \notin doc.tables
       /\ \A v \in DOMAIN doc.vals : ~IsPrefix(v, path)
    THEN [doc EXCEPT !.cur = path, !.tables = @ \cup {path}]
    ELSE [doc EXCEPT !.ok = FALSE]

\* a key = value line: the key, the text of the value, the dotted path
TomlKeyValue(doc, key, val, path) ==
    IF /\ IsBareKey(key)
       /\ Len(val) >= 2
       /\ val[1] = "\"" /\ val[Len(val)] = "\""
       /\ \A i \in 2..(Len(val) - 1) : val[i] \notin {"\"", "\\"}
       /\ path \notin DOMAIN doc.vals
       /\ \A t \in doc.tables : ~IsPrefix(path, t)
       /\ \A v \in DOMAIN doc.vals : ~IsPrefix(path, v) /\ ~IsPrefix(v, path)
    THEN [doc EXCEPT !.vals = (path :> SubSeq(val, 2, Len(val) - 1)) @@ @]
    ELSE [doc EXCEPT !.ok = FALSE]

\* a line that is no header, split at its first "=" (index eq, 0 when none)
TomlPair(doc, line, eq) ==
    IF eq = 0 THEN [doc EXCEPT !.ok = FALSE]
    ELSE TomlKeyValue(doc,
                      StripSet(SubSeq(line, 1, eq - 1), TomlSpace),
                      StripSet(SubSeq(line, eq + 1, Len(line)), TomlSpace),
                      doc.cur \o <<StripSet(SubSeq(line, 1, eq - 1), TomlSpace)>>)

\* the document after one more line, blanks around it removed
TomlStripped(doc, line) ==
    IF ~doc.ok \/ line = <<>> \/ line[1] = "#" THEN doc
    ELSE IF line[1] = "["
    THEN TomlHeader(doc, line[Len(line)] = "]", HeaderPath(SubSeq(line, 2, Len(line) - 1)))
    ELSE TomlPair(doc, line, IndexOf(line, "="))

\* the document after one more line
TomlLine(doc, rawline) ==
    TomlStripped(doc, StripSet(RStripSet(rawline, {"\r"}), TomlSpace))

RECURSIVE TomlLines(_, _)
TomlLines(doc, lines) ==
    IF lines = <<>> THEN doc ELSE TomlLines(TomlLine(doc, Head(lines)), Tail(lines))

\* tomli.loads(content); ok is FALSE when it raises TOMLDecodeError
TomlLoads(content) ==
    TomlLines([ok |-> TRUE, cur |-> <<>>, tables |-> {}, vals |-> <<>>],
              SplitOn(content, NL))

\* what data[path[1]][path[2]]... is: "str", "dict" or "absent"
TomlKind(doc, path) ==
    IF path \in DOMAIN doc.vals THEN "str"
    ELSE IF \/ \E t \in doc.tables : IsPrefix(path, t)
            \/ \E v \in DOMAIN doc.vals : IsPrefix(path, v)
    THEN "dict"
    ELSE "absent"

\* the value at a path that is present: the string, or a dict
TomlValue(doc, path) ==
    IF path \in DOMAIN doc.vals THEN doc.vals[path]
    ELSE IF \/ \E t \in doc.tables : IsPrefix(path, t) /\ t # path
            \/ \E v \in DOMAIN doc.vals : IsPrefix(path, v)
    THEN SomeDict
    ELSE EmptyDict

----------------------------------------------------------------------------
(* The regexes of lines 37 and 59 *)

DoubleQuote == {"\""}

AnyQuote == {"\"", "'"}

\* the index after the \s* that starts at i
SkipSpaces(s, i) == i + RunLength(s, i, Whitespace)

\* c when s[c] is an opening quote, else 0
QuoteAt(s, c, quotes) == IF c <= Len(s) /\ s[c] \in quotes THEN c ELSE 0

\* =\s*["'] at b: the index of the quote, 0 when it does not match
EqualsQuoteAt(s, b, quotes) ==
    IF StartsWithAt(s, b, <<"=">>) THEN QuoteAt(s, SkipSpaces(s, b + 1), quotes) ELSE 0

\* name\s*=\s*["'] at i: the index of the quote, 0 when it does not match
NameQuoteAt(s, i, quotes) ==
    IF StartsWithAt(s, i, NameWord)
    THEN EqualsQuoteAt(s, SkipSpaces(s, i + Len(NameWord)), quotes)
    ELSE 0

\* ([^"']+)["'] after the quote at q, the group being n characters long
GroupClosed(s, q, n, quotes) ==
    q > 0 /\ n > 0 /\ q + n + 1 <= Len(s) /\ s[q + n + 1] \in quotes

\* the whole of name\s*=\s*["']([^"']+)["'] matches at i
NameMatchAt(s, i, quotes) ==
    GroupClosed(s, NameQuoteAt(s, i, quotes),
                RunLengthNot(s, NameQuoteAt(s, i, quotes) + 1, quotes), quotes)

\* group 1 of the match whose opening quote is at q
GroupAfter(s, q, quotes) == SubSeq(s, q + 1, q + RunLengthNot(s, q + 1, quotes))

\* group 1 of the match that starts at the place chosen among `starts`
GroupOf(s, starts, at, quotes) ==
    IF starts = {} THEN None ELSE GroupAfter(s, NameQuoteAt(s, at, quotes), quotes)

\* re.search(r'name\s*=\s*"([^"]+)"', line): group 1 of the leftmost match,
\* None when there is none
NameStarts(line) == {i \in 1..Len(line) : NameMatchAt(line, i, DoubleQuote)}

LeastOr0(S) == IF S = {} THEN 0 ELSE Least(S)

NameEqualsQuoted(line) ==
    GroupOf(line, NameStarts(line), LeastOr0(NameStarts(line)), DoubleQuote)

\* setup\s*\( at i: the index after the parenthesis, 0 when it does not match
SetupOpenAt(s, i) ==
    IF /\ StartsWithAt(s, i, SetupWord)
       /\ StartsWithAt(s, SkipSpaces(s, i + Len(SetupWord)), <<"(">>)
    THEN SkipSpaces(s, i + Len(SetupWord)) + 1
    ELSE 0

\* the places after the parenthesis at o - 1 where [^)]* can end and the rest
\* of the pattern matches
SetupNames(s, o) ==
    IF o = 0 THEN {}
    ELSE {j \in o..(o + RunLengthNot(s, o, {")"})) : NameMatchAt(s, j, AnyQuote)}

\* the places where the whole pattern matches
SetupStarts(s) == {i \in 1..Len(s) : SetupNames(s, SetupOpenAt(s, i)) # {}}

\* [^)]* is greedy: of the places `name` can start after the leftmost
\* setup(, the last one wins
SetupNameAt(s, starts) ==
    IF starts = {} THEN 0 ELSE Greatest(SetupNames(s, SetupOpenAt(s, Least(starts))))

----------------------------------------------------------------------------
(* The name extractors, lines 26-72 *)

\* lines 34-39: the first line that starts with 'name = ' and matches
RECURSIVE CargoFallback(_)
CargoFallback(lines) ==
    IF lines = <<>> THEN None
    ELSE IF /\ StartsWith(Strip(Head(lines)), NameEq)
            /\ NameStarts(Head(lines)) # {}
    THEN NameEqualsQuoted(Head(lines))
    ELSE CargoFallback(Tail(lines))

\* lines 30-31 on the parsed document; the result TypeError stands for the
\* exception that leads into the except branch
CargoName(data, package) ==
    IF package = "absent" THEN None
    ELSE IF package = "str"
    \* 'name' in a str is a substring test, and indexing the str by 'name'
    \* raises TypeError
    THEN (IF Contains(TomlValue(data, <<PackageWord>>), NameWord) THEN TypeError ELSE None)
    ELSE IF TomlKind(data, <<PackageWord, NameWord>>) = "absent" THEN None
    ELSE TomlValue(data, <<PackageWord, NameWord>>)

\* lines 28-40: the except branch is taken when tomli.loads or the lookup raises
CargoTry(data, content) ==
    IF ~data.ok THEN CargoFallback(SplitOn(content, NL))
    ELSE IF CargoName(data, TomlKind(data, <<PackageWord>>)) = TypeError
    THEN CargoFallback(SplitOn(content, NL))
    ELSE CargoName(data, TomlKind(data, <<PackageWord>>))

\* lines 26-40
extract_name_from_cargo_toml(content) == CargoTry(TomlLoads(content), content)

\* d.get('name') of a value d: a dict gives the entry or None; a str has no
\* .get, and the AttributeError is caught by the bare except of line 52
GetName(data, path) ==
    IF TomlKind(data, path) = "str" THEN None
    ELSE IF TomlKind(data, path \o <<NameWord>>) = "absent" THEN None
    ELSE TomlValue(data, path \o <<NameWord>>)

\* lines 44-54 on the parsed document
PyprojectName(data, tool) ==
    IF ~data.ok THEN None
    ELSE IF tool = "dict" /\ TomlKind(data, <<ToolWord, PoetryWord>>) # "absent"
    THEN GetName(data, <<ToolWord, PoetryWord>>)
    \* 'poetry' in a str is a substring test; indexing the str raises
    \* TypeError, and the bare except returns None
    ELSE IF tool = "str" /\ Contains(TomlValue(data, <<ToolWord>>), PoetryWord)
    THEN None
    ELSE IF TomlKind(data, <<ProjectWord>>) # "absent"
    THEN GetName(data, <<ProjectWord>>)
    ELSE None

\* the kind of data['tool'], asked only of a document that parsed
ToolKind(data) == IF data.ok THEN TomlKind(data, <<ToolWord>>) ELSE "absent"

\* lines 42-54
extract_name_from_pyproject(content) ==
    PyprojectName(TomlLoads(content), ToolKind(TomlLoads(content)))

\* lines 56-62: re.search(r'setup\s*\([^)]*name\s*=\s*["\']([^"\']+)["\']', content)
extract_name_from_setup_py(content) ==
    GroupOf(content, SetupStarts(content),
            SetupNameAt(content, SetupStarts(content)), AnyQuote)

\* mutant: the first segment of the module path
LastSegment_First(parts) == parts[1]

\* lines 70-71
LastSegment(parts) == parts[Len(parts)]

\* lines 67-72
ModuleName(first_line) ==
    IF StartsWith(first_line, ModulePrefix)
    THEN LastSegment(SplitOn(Strip(DropFirst(first_line, 7)), "/"))
    ELSE None

\* lines 64-72
extract_name_from_go_mod(content) == ModuleName(Strip(SplitOn(content, NL)[1]))

----------------------------------------------------------------------------
(* find_project_name and generate_default_name, lines 74-118 *)

\* lines 113-118, with os.path.exists answered by the set of existing entries
RECURSIVE DefaultNameFrom(_, _, _)
DefaultNameFrom(existing, base_name, i) ==
    IF base_name \in existing
    THEN DefaultNameFrom(existing, ProjectBase \o <<" ">> \o Decimal(i), i + 1)
    ELSE base_name

\* mutant: the numbering starts at 2
generate_default_name_FromTwo == DefaultNameFrom(fs, ProjectBase, 2)

\* lines 111-118
generate_default_name == DefaultNameFrom(fs, ProjectBase, 1)

\* line 84: split(':')[1] raises IndexError when the line has no colon, and
\* the except of line 86 leaves name None
AfterColon(parts) ==
    IF Len(parts) >= 2 THEN StripSet(Strip(parts[2]), {"\"", ","}) ELSE None

\* lines 81-87: the first line holding "name" decides
RECURSIVE PackageJsonName(_)
PackageJsonName(lines) ==
    IF lines = <<>> THEN None
    ELSE IF Contains(Head(lines), NameKey) THEN AfterColon(SplitOn(Head(lines), ":"))
    ELSE PackageJsonName(Tail(lines))

\* mutant: only blanks are replaced
ReplaceInvalid_BlanksOnly(name) ==
    [i \in 1..Len(name) |-> IF name[i] = " " THEN "-" ELSE name[i]]

\* line 104: re.sub(r'[^\w\-\.]', '-', name)
ReplaceInvalid(name) ==
    [i \in 1..Len(name) |->
        IF name[i] \in WordChars \cup {"-", "."} THEN name[i] ELSE "-"]

\* lines 80-99: the extractor is chosen by the end of the path
ExtractName(package_content, filepath) ==
    IF EndsWith(filepath, PackageJson)
    THEN PackageJsonName(SplitOn(package_content, NL))
    ELSE IF EndsWith(filepath, CargoToml)
    THEN extract_name_from_cargo_toml(package_content)
    ELSE IF EndsWith(filepath, PyprojectToml)
    THEN extract_name_from_pyproject(package_content)
    ELSE IF EndsWith(filepath, SetupPy)
    THEN extract_name_from_setup_py(package_content)
    ELSE IF EndsWith(filepath, GoMod)
    THEN extract_name_from_go_mod(package_content)
    ELSE None

\* lines 106-107: the name without its leading and trailing dashes, or the
\* default name when nothing is left
CleanOrDefault(clean) == IF clean # <<>> THEN clean ELSE generate_default_name

\* lines 101-109; re.sub raises TypeError on a name that is not a str
SanitizeName(name) ==
    IF NameTruthy(name)
    THEN IF ~IsStr(name) THEN TypeError
         ELSE CleanOrDefault(StripSet(ReplaceInvalid(name), {"-"}))
    ELSE generate_default_name

\* lines 74-109
find_project_name(package_content, filepath) ==
    SanitizeName(ExtractName(package_content, filepath))

----------------------------------------------------------------------------
(* create_project, lines 190-234 *)

\* lines 199-205
EmptyConfigFiles == [k \in {ConfigOrder[i] : i \in 1..Len(ConfigOrder)} |-> None]

\* mutant: the loop does not stop at the first manifest
RECURSIVE FirstConfigFile_NoBreak(_, _)
FirstConfigFile_NoBreak(records, config_files) ==
    IF records = <<>> THEN config_files
    ELSE IF Head(records)[1] \in DOMAIN config_files
    THEN FirstConfigFile_NoBreak(Tail(records),
                                 [config_files EXCEPT ![Head(records)[1]] = Head(records)[2]])
    ELSE FirstConfigFile_NoBreak(Tail(records), config_files)

\* lines 208-211: the first record whose path is a key gets its content
\* stored, and the loop breaks
RECURSIVE FirstConfigFile(_, _)
FirstConfigFile(records, config_files) ==
    IF records = <<>> THEN config_files
    ELSE IF Head(records)[1] \in DOMAIN config_files
    THEN [config_files EXCEPT ![Head(records)[1]] = Head(records)[2]]
    ELSE FirstConfigFile(Tail(records), config_files)

\* lines 214-217: the dict is walked in insertion order up to the first
\* entry with a content; None when there is none
RECURSIVE NameFromConfigFiles(_, _)
NameFromConfigFiles(config_files, order) ==
    IF order = <<>> THEN None
    ELSE IF config_files[Head(order)] # None
    THEN find_project_name(config_files[Head(order)], Head(order))
    ELSE NameFromConfigFiles(config_files, Tail(order))

\* lines 220-221
FoundOrDefault(found) == IF found = None THEN generate_default_name ELSE found

\* mutant: an explicit name is sanitized like a manifest name
ResolveName_Sanitized(records, given) ==
    IF given # None THEN SanitizeName(given)
    ELSE FoundOrDefault(NameFromConfigFiles(FirstConfigFile(records, EmptyConfigFiles),
                                            ConfigOrder))

\* lines 197-221
ResolveName(records, given) ==
    IF given # None THEN given
    ELSE FoundOrDefault(NameFromConfigFiles(FirstConfigFile(records, EmptyConfigFiles),
                                            ConfigOrder))

----------------------------------------------------------------------------
(* The records, names and directory entries create_project is run on *)

\* longest record list explored
MaxRecords == 3

\* the default names "project", "project 1", ... up to this number may exist
MaxExisting == 1

\* package.json of test_project_name_priority
NpmProjectJson ==
    <<"{", "\"", "n", "a", "m", "e", "\"", ":", " ", "\"", "n", "p", "m", "-",
     "p", "r", "o", "j", "e", "c", "t", "\"", "}">>

\* Cargo.toml of test_project_name_priority
RustProjectToml ==
    <<"[", "p", "a", "c", "k", "a", "g", "e", "]", "\n", "n", "a", "m", "e",
     " ", "=", " ", "\"", "r", "u", "s", "t", "-", "p", "r", "o", "j",
     "e", "c", "t", "\"">>

\* go.mod of test_project_name_priority
GoProjectMod ==
    <<"m", "o", "d", "u", "l", "e", " ", "g", "i", "t", "h", "u", "b", ".",
     "c", "o", "m", "/", "u", "s", "e", "r", "/", "g", "o", "-", "p", "r",
     "o", "j", "e", "c", "t">>

\* a go.mod whose first line names no module
GoNoModule ==
    <<"g", "o", " ", "1", ".", "1", "6">>

\* pyproject.toml of test_project_name_from_various_configs
PoetryProjectToml ==
    <<"[", "t", "o", "o", "l", ".", "p", "o", "e", "t", "r", "y", "]", "\n",
     "n", "a", "m", "e", " ", "=", " ", "\"", "p", "y", "t", "h", "o",
     "n", "-", "p", "r", "o", "j", "e", "c", "t", "\"">>

\* a setup.py in the shape of test_project_name_from_various_configs
SetupProjectPy ==
    <<"s", "e", "t", "u", "p", "(", "\n", " ", " ", " ", " ", "n", "a", "m",
     "e", "=", "\"", "s", "e", "t", "u", "p", "-", "p", "r", "o", "j",
     "e", "c", "t", "\"", ",", "\n", ")">>

\* the text of a file that is no manifest
ReadmeText ==
    <<"#", " ", "h", "i">>

\* a path that is no manifest
ReadmeMd ==
    <<"R", "E", "A", "D", "M", "E", ".", "m", "d">>

\* an explicit --name
MyApp ==
    <<"m", "y", " ", "a", "p", "p">>

\* the names the manifests above give
NpmProject ==
    <<"n", "p", "m", "-", "p", "r", "o", "j", "e", "c", "t">>

RustProject ==
    <<"r", "u", "s", "t", "-", "p", "r", "o", "j", "e", "c", "t">>

GoProject ==
    <<"g", "o", "-", "p", "r", "o", "j", "e", "c", "t">>

PythonProject ==
    <<"p", "y", "t", "h", "o", "n", "-", "p", "r", "o", "j", "e", "c", "t">>

SetupProject ==
    <<"s", "e", "t", "u", "p", "-", "p", "r", "o", "j", "e", "c", "t">>

\* the records the record list is drawn from
Records ==
    { <<PackageJson, NpmProjectJson>>,
      <<CargoToml, RustProjectToml>>,
      <<GoMod, GoProjectMod>>,
      <<GoMod, GoNoModule>>,
      <<PyprojectToml, PoetryProjectToml>>,
      <<SetupPy, SetupProjectPy>>,
      <<ReadmeMd, ReadmeText>> }

RecordLists == UNION { [1..n -> Records] : n \in 0..MaxRecords }

\* the k-th default name: "project", "project 1", "project 2", ...
DefaultCandidate(k) == IF k = 0 THEN ProjectBase ELSE ProjectBase \o <<" ">> \o Decimal(k)

ExistingSets == SUBSET { DefaultCandidate(k) : k \in 0..MaxExisting }

ResInit ==
    /\ cpc = "start"
    /\ files \in RecordLists
    /\ args_name \in {None, MyApp}
    /\ project_name = args_name
    /\ fs \in ExistingSets

\* lines 192-194: nothing to do
NoFiles ==
    /\ cpc = "start"
    /\ files = <<>>
    /\ cpc' = "returned"
    /\ UNCHANGED <<args_name, files, project_name, fs>>

\* lines 196-221: the name is settled, or an exception leaves create_project
SettleName ==
    /\ cpc = "start"
    /\ files # <<>>
    /\ \E name \in {ResolveName(files, project_name)} :
          IF name = TypeError
          THEN cpc' = "raised" /\ UNCHANGED project_name
          ELSE cpc' = "named" /\ project_name' = name
    /\ UNCHANGED <<args_name, files, fs>>

\* line 234: os.makedirs(project_name, exist_ok=True); the files are written
\* after it, lines 236-264
MakeProjectDir ==
    /\ cpc = "named"
    /\ fs' = fs \cup {project_name}
    /\ cpc' = "created"
    /\ UNCHANGED <<args_name, files, project_name>>


\* create_project is not running
ResIdle ==
    /\ cpc = "idle"
    /\ args_name = None
    /\ files = <<>>
    /\ project_name = None
    /\ fs = {}

----------------------------------------------------------------------------
(* The manifests find_project_name is run on *)

\* package.json of test_project_name_sanitization
SpacedNameJson ==
    <<"{", "\"", "n", "a", "m", "e", "\"", ":", " ", "\"", "m", "y", " ",
     "p", "r", "o", "j", "e", "c", "t", " ", "n", "a", "m", "e", "\"", "}">>

\* a package.json whose name has no character that sanitization keeps
SymbolNameJson ==
    <<"{", "\"", "n", "a", "m", "e", "\"", ":", " ", "\"", "@", "\"", "}">>

\* a package.json without a name
NoNameJson ==
    <<"{", "}">>

\* Cargo.toml of test_project_name_sanitization
RustSymbolsToml ==
    <<"[", "p", "a", "c", "k", "a", "g", "e", "]", "\n", "n", "a", "m",
     "e", " ", "=", " ", "\"", "r", "u", "s", "t", "@", "p", "r", "o",
     "j", "e", "c", "t", "!", "\"", "\n">>

\* a Cargo.toml in which package.name is a table
NameTableToml ==
    <<"[", "p", "a", "c", "k", "a", "g", "e", ".", "n", "a", "m", "e",
     "]", "\n", "x", " ", "=", " ", "\"", "1", "\"">>

\* a Cargo.toml that is not valid TOML, with a name line
BrokenCargoToml ==
    <<"[", "p", "a", "c", "k", "a", "g", "e", "\n", "n", "a", "m", "e",
     " ", "=", " ", "\"", "r", "x", "\"">>

\* a Cargo.toml that is not valid TOML, without a name line
BrokenNoNameToml ==
    <<"[", "p", "a", "c", "k", "a", "g", "e">>

\* a pyproject.toml with a [project] table only
ProjectOnlyToml ==
    <<"[", "p", "r", "o", "j", "e", "c", "t", "]", "\n", "n", "a", "m",
     "e", " ", "=", " ", "\"", "p", "p", "\"">>

\* a pyproject.toml whose [tool.poetry] table has no name, with a [project] name
PoetryNoNameToml ==
    <<"[", "t", "o", "o", "l", ".", "p", "o", "e", "t", "r", "y", "]",
     "\n", "v", "e", "r", "s", "i", "o", "n", " ", "=", " ", "\"", "1",
     "\"", "\n", "[", "p", "r", "o", "j", "e", "c", "t", "]", "\n", "n",
     "a", "m", "e", " ", "=", " ", "\"", "p", "p", "\"">>

\* a pyproject.toml with a [tool] table without poetry, with a [project] name
OtherToolToml ==
    <<"[", "t", "o", "o", "l", ".", "b", "l", "a", "c", "k", "]", "\n",
     "x", " ", "=", " ", "\"", "1", "\"", "\n", "[", "p", "r", "o", "j",
     "e", "c", "t", "]", "\n", "n", "a", "m", "e", " ", "=", " ", "\"",
     "p", "p", "\"">>

\* a pyproject.toml that is not valid TOML
BrokenPyprojectToml ==
    <<"[", "p", "r", "o", "j", "e", "c", "t", "\n", "n", "a", "m", "e",
     " ", "=", " ", "\"", "p", "p", "\"">>

\* a setup.py without a name argument
SetupNoNamePy ==
    <<"s", "e", "t", "u", "p", "(", ")">>

\* a go.mod whose module path has no '/'
GoBareMod ==
    <<"m", "o", "d", "u", "l", "e", " ", "m", "y", "a", "p", "p", "\n",
     "g", "o", " ", "1", ".", "1", "6">>

\* a go.mod whose first line is indented
GoIndentedMod ==
    <<" ", "m", "o", "d", "u", "l", "e", " ", "a", "/", "b">>

\* a go.mod whose module line is the second line
GoSecondLineMod ==
    <<"\n", "m", "o", "d", "u", "l", "e", " ", "a", "/", "b">>

\* a go.mod whose module path ends with '/'
GoTrailingSlashMod ==
    <<"m", "o", "d", "u", "l", "e", " ", "x", "/">>

\* the manifests find_project_name is called with: those of Records, and
\* manifests that are malformed, lack a name, or hold a name that needs
\* sanitization
ManifestRecords ==
    { r \in Records : r[1] # ReadmeMd } \cup
    { <<PackageJson, SpacedNameJson>>,
      <<PackageJson, SymbolNameJson>>,
      <<PackageJson, NoNameJson>>,
      <<CargoToml, RustSymbolsToml>>,
      <<CargoToml, NameTableToml>>,
      <<CargoToml, BrokenCargoToml>>,
      <<CargoToml, BrokenNoNameToml>>,
      <<PyprojectToml, ProjectOnlyToml>>,
      <<PyprojectToml, PoetryNoNameToml>>,
      <<PyprojectToml, OtherToolToml>>,
      <<PyprojectToml, BrokenPyprojectToml>>,
      <<SetupPy, SetupNoNamePy>>,
      <<GoMod, GoBareMod>>,
      <<GoMod, GoIndentedMod>>,
      <<GoMod, GoSecondLineMod>>,
      <<GoMod, GoTrailingSlashMod>> }

\* a call of find_project_name(package_content, filepath) in a directory
\* with the entries fs
FindInit ==
    /\ fpc = "call"
    /\ manifest \in ManifestRecords
    /\ extracted = None
    /\ found_name = None
    /\ cpc = "idle"
    /\ args_name = None
    /\ files = <<>>
    /\ project_name = None
    /\ fs \in ExistingSets

\* lines 74-109: the call returns a name, or re.sub raises TypeError
FindProjectName ==
    /\ fpc = "call"
    /\ \E name \in {ExtractName(manifest[2], manifest[1])} :
          /\ extracted' = name
          /\ \E clean \in {SanitizeName(name)} :
                IF clean = TypeError
                THEN fpc' = "raised" /\ UNCHANGED found_name
                ELSE fpc' = "returned" /\ found_name' = clean
    /\ UNCHANGED manifest

\* find_project_name is not running
FindIdle ==
    /\ fpc = "idle"
    /\ manifest = None
    /\ extracted = None
    /\ found_name = None

----------------------------------------------------------------------------
(* main, lines 270-313, with process_input and create_project run inside it *)

\* most input files named on the command line
MaxInputs == 2

\* longest input file, in lines
MaxFileLines == 2

\* an input file that exists (tests/inputs/basic.txt)
BasicTxt ==
    <<"b", "a", "s", "i", "c", ".", "t", "x", "t">>

\* the input file of test_nonexistent_input, which does not exist
NonexistentTxt ==
    <<"n", "o", "n", "e", "x", "i", "s", "t", "e", "n", "t", ".", "t",
     "x", "t">>

\* a line that makes package.name a table
NameTableLine ==
    <<"[", "p", "a", "c", "k", "a", "g", "e", ".", "n", "a", "m", "e",
     ".", "x", "]">>

\* the input files that exist
InputDir == {BasicTxt}

\* the lines the input files and standard input are made of: the marker of
\* a manifest, a marker with an absolute path, a marker with a path that
\* starts with "..", and a line that is no marker
InputLines ==
    { SlashStyle \o CargoToml,
      SlashStyle \o <<"/", "a">>,
      SlashStyle \o <<".", ".", "/", "a">>,
      NameTableLine }

\* line 292 and line 303: the two messages of main that end the run early
InputNotFound == "Input file not found"

NoFilesToProcess == "No files to process"

\* line 313: the message of the top-level handler
UnexpectedError == "Error"

\* mutant: open() succeeds for every name
InputExists_Always(input_file) == TRUE

\* line 288: open(input_file, 'r') does not raise FileNotFoundError
InputExists(input_file) == input_file \in InputDir

\* mutant: create_project is called whatever all_files holds
NothingToProcess_Never(records) == FALSE

\* line 302: `if not all_files`
NothingToProcess(records) == records = <<>>

\* os.path.join(a, b), line 242
PathJoin(a, b) ==
    IF StartsWith(b, <<"/">>) THEN b
    ELSE IF a = <<>> \/ EndsWith(a, <<"/">>) THEN a \o b
    ELSE a \o <<"/">> \o b

\* the directories main is run in: empty, or holding an entry "project"
MainDirs == {{}, {ProjectBase}}

ArgLists == UNION { [1..n -> {BasicTxt, NonexistentTxt}] : n \in 0..MaxInputs }

\* main is not running
MainIdle ==
    /\ mpc = "idle"
    /\ args_files = <<>>
    /\ next_input = 0
    /\ all_files = <<>>
    /\ exit_status = None
    /\ stderr = None

\* process_input is not running
SegIdle ==
    /\ pc = "idle"
    /\ consumed = <<>>
    /\ current_file = None
    /\ current_content = <<>>
    /\ files_to_process = <<>>
    /\ marker_style = None
    /\ branch = "none"
    /\ opened_at = 0
    /\ origin = <<>>
    /\ markers = <<>>

\* lines 275-283: the arguments are parsed and all_files is empty
MainInit ==
    /\ args_files \in ArgLists
    /\ args_name \in {None, MyApp}
    /\ mpc = IF args_files = <<>> THEN "stdin" ELSE "loop"
    /\ next_input = 1
    /\ all_files = <<>>
    /\ exit_status = None
    /\ stderr = None
    /\ cpc = "idle"
    /\ files = <<>>
    /\ project_name = None
    /\ fs \in MainDirs

\* a call of process_input begins: the state SegInit describes
CallProcessInput ==
    /\ pc' = "loop"
    /\ consumed' = <<>>
    /\ current_file' = None
    /\ current_content' = <<>>
    /\ files_to_process' = <<>>
    /\ marker_style' = None
    /\ branch' = "none"
    /\ opened_at' = 0
    /\ origin' = <<>>
    /\ markers' = <<>>

\* lines 287-289: the next input file is opened and process_input called
OpenInput ==
    /\ mpc = "loop"
    /\ InputExists(args_files[next_input])
    /\ mpc' = "parsing"
    /\ CallProcessInput
    /\ UNCHANGED <<args_files, next_input, all_files, exit_status, stderr>>
    /\ UNCHANGED <<resvars, findvars>>

\* lines 291-293: open() raised FileNotFoundError
InputFileNotFound ==
    /\ mpc = "loop"
    /\ ~InputExists(args_files[next_input])
    /\ stderr' = <<InputNotFound, args_files[next_input]>>
    /\ exit_status' = 1
    /\ mpc' = "exited"
    /\ UNCHANGED <<args_files, next_input, all_files>>
    /\ UNCHANGED <<segvars, resvars, findvars>>

\* lines 294-297: no input file was named, process_input is called on stdin
ReadStdin ==
    /\ mpc = "stdin"
    /\ mpc' = "parsing"
    /\ CallProcessInput
    /\ UNCHANGED <<args_files, next_input, all_files, exit_status, stderr>>
    /\ UNCHANGED <<resvars, findvars>>

\* process_input reads a line of the input
ParseLine ==
    /\ mpc = "parsing"
    /\ Len(consumed) < MaxFileLines
    /\ \E line \in InputLines : ProcessLine(Append(line, NL))

\* process_input reaches the end of the input
ParseEnd ==
    /\ mpc = "parsing"
    /\ EndOfInput

\* lines 290 and 298: all_files.extend(files); the loop goes on, or ends
ExtendAllFiles ==
    /\ mpc = "parsing"
    /\ pc = "done"
    /\ all_files' = all_files \o files_to_process
    /\ next_input' = next_input + 1
    /\ mpc' = IF next_input < Len(args_files) THEN "loop" ELSE "check"
    /\ UNCHANGED <<args_files, exit_status, stderr>>
    /\ UNCHANGED <<segvars, resvars, findvars>>

\* lines 302-304
ExitNoFiles ==
    /\ mpc = "check"
    /\ NothingToProcess(all_files)
    /\ stderr' = <<NoFilesToProcess>>
    /\ exit_status' = 1
    /\ mpc' = "exited"
    /\ UNCHANGED <<args_files, next_input, all_files>>
    /\ UNCHANGED <<segvars, resvars, findvars>>

\* line 306: create_project(all_files, project_name=args.name)
CallCreateProject ==
    /\ mpc = "check"
    /\ ~NothingToProcess(all_files)
    /\ mpc' = "create"
    /\ cpc' = "start"
    /\ files' = all_files
    /\ project_name' = args_name
    /\ UNCHANGED <<args_name, fs>>
    /\ UNCHANGED <<args_files, next_input, all_files, exit_status, stderr>>
    /\ UNCHANGED <<segvars, findvars>>

\* lines 237-264: every record is written to os.path.join(project_name,
\* filepath); the directories line 246 makes are the ancestors of that path
WriteFiles ==
    /\ cpc = "created"
    /\ fs' = fs \cup {PathJoin(project_name, files[i][1]) : i \in 1..Len(files)}
    /\ cpc' = "written"
    /\ UNCHANGED <<args_name, files, project_name>>

\* create_project returns and main ends: exit status 0
MainReturn ==
    /\ mpc = "create"
    /\ cpc = "written"
    /\ exit_status' = 0
    /\ mpc' = "exited"
    /\ UNCHANGED <<args_files, next_input, all_files, stderr>>
    /\ UNCHANGED <<segvars, resvars, findvars>>

\* lines 311-313: an exception left create_project
MainError ==
    /\ mpc = "create"
    /\ cpc = "raised"
    /\ stderr' = <<UnexpectedError>>
    /\ exit_status' = 1
    /\ mpc' = "exited"
    /\ UNCHANGED <<args_files, next_input, all_files>>
    /\ UNCHANGED <<segvars, resvars, findvars>>

----------------------------------------------------------------------------
(* The legacy segmenter: claude_project_unpacker.process_input, lines 26-58.
   It has the locals of unpack_artifact.process_input but no marker style:
   every line that starts with "// " is a marker. *)

\* lines 38-40: the records once the previous file, if any, is saved
LegacySaved(records, file, content) ==
    IF Truthy(file) THEN Append(records, <<file, JoinNL(content)>>) ELSE records

\* line 40: current_content, reset when the previous file was saved
LegacyContent(file, content) == IF Truthy(file) THEN <<>> ELSE content

\* line 45, evaluated after lines 38-42: the new current_file starts with
\* "[" and current_content is not empty
LegacyIsPlaceholder(file, content) == StartsWith(file, <<"[">>) /\ content # <<>>

\* line 47: files_to_process.append((files_to_process.pop()[0], line[3:]))
LegacyReplaceLast(records, text) ==
    Append(AllButLast(records), <<records[Len(records)][1], text>>)

\* one iteration of the loop body, lines 32-52; pop() of an empty list
\* raises IndexError
LegacyLine(raw) ==
    /\ pc = "loop"
    /\ Len(consumed) < MaxLines
    /\ StreamOpen
    /\ consumed' = Append(consumed, raw)
    /\ \E line \in {RStripNL(raw)} :
          IF StartsWith(line, SlashStyle)
          THEN \E saved \in {LegacySaved(files_to_process, current_file, current_content)},
                  content \in {LegacyContent(current_file, current_content)} :
                 IF LegacyIsPlaceholder(DropFirst(line, 3), content)
                 THEN /\ branch' = "placeholder"
                      /\ current_content' = content
                      /\ current_file' = None
                      /\ IF saved = <<>>
                         THEN pc' = "raised" /\ files_to_process' = saved
                         ELSE /\ pc' = "loop"
                              /\ files_to_process' =
                                    LegacyReplaceLast(saved, DropFirst(line, 3))
                 ELSE /\ branch' = "new"
                      /\ files_to_process' = saved
                      /\ current_content' = content
                      /\ current_file' = DropFirst(line, 3)
                      /\ pc' = "loop"
          ELSE IF Truthy(current_file)
          THEN /\ branch' = "append"
               /\ current_content' = Append(current_content, line)
               /\ pc' = "loop"
               /\ UNCHANGED <<files_to_process, current_file>>
          ELSE /\ branch' = "ignore"
               /\ pc' = "loop"
               /\ UNCHANGED <<files_to_process, current_file, current_content>>
    /\ UNCHANGED <<marker_style, opened_at, origin, markers>>
    /\ UNCHANGED <<resvars, findvars, mainvars>>

\* the stream is exhausted: lines 54-58
LegacyEnd ==
    /\ pc = "loop"
    /\ pc' = "done"
    /\ branch' = "eof"
    /\ files_to_process' =
          IF Truthy(current_file) /\ current_content # <<>>
          THEN Append(files_to_process, <<current_file, JoinNL(current_content)>>)
          ELSE files_to_process
    /\ UNCHANGED <<consumed, current_file, current_content, marker_style, opened_at,
                   origin, markers>>
    /\ UNCHANGED <<resvars, findvars, mainvars>>

LegacyReadLine == \E raw \in RawLines : LegacyLine(raw)

----------------------------------------------------------------------------
(* Spec: one run of process_input over every input of up to MaxLines lines *)

Init == SegInit /\ ResIdle /\ FindIdle /\ MainIdle

Next == ReadLine \/ EndOfInput

Spec == Init /\ [][Next]_vars

----------------------------------------------------------------------------
(* SpecResolve: one run of create_project over every record list of up to
   MaxRecords records, with and without an explicit name *)

InitResolve == SegInit /\ ResInit /\ FindIdle /\ MainIdle

NextResolve ==
    \/ NoFiles /\ UNCHANGED <<segvars, findvars, mainvars>>
    \/ SettleName /\ UNCHANGED <<segvars, findvars, mainvars>>
    \/ MakeProjectDir /\ UNCHANGED <<segvars, findvars, mainvars>>

SpecResolve == InitResolve /\ [][NextResolve]_vars

----------------------------------------------------------------------------
(* SpecFind: one call of find_project_name on every manifest of
   ManifestRecords, in every directory of ExistingSets *)

InitFind == SegInit /\ FindInit /\ MainIdle

NextFind == FindProjectName /\ UNCHANGED <<segvars, resvars, mainvars>>

SpecFind == InitFind /\ [][NextFind]_vars

----------------------------------------------------------------------------
(* SpecMain: one run of main over up to MaxInputs input files (or standard
   input) of up to MaxFileLines lines each *)

InitMain == SegIdle /\ MainInit /\ FindIdle

NextMain ==
    \/ OpenInput
    \/ InputFileNotFound
    \/ ReadStdin
    \/ ParseLine
    \/ ParseEnd
    \/ ExtendAllFiles
    \/ ExitNoFiles
    \/ CallCreateProject
    \/ SettleName /\ mpc = "create" /\ UNCHANGED <<segvars, findvars, mainvars>>
    \/ MakeProjectDir /\ mpc = "create" /\ UNCHANGED <<segvars, findvars, mainvars>>
    \/ WriteFiles /\ mpc = "create" /\ UNCHANGED <<segvars, findvars, mainvars>>
    \/ MainReturn
    \/ MainError

SpecMain == InitMain /\ [][NextMain]_vars

----------------------------------------------------------------------------
(* SpecLegacy: one run of the legacy process_input over every input of up
   to MaxLines lines *)

NextLegacy == LegacyReadLine \/ LegacyEnd

SpecLegacy == Init /\ [][NextLegacy]_vars

----------------------------------------------------------------------------
(* Vocabulary of the properties *)

\* the step is one iteration of the loop of process_input
LineStep == pc = "loop" /\ pc' = "loop" /\ Len(consumed') = Len(consumed) + 1

\* the step is the end of the input
EofStep == pc = "loop" /\ pc' = "done"

\* the line the step reads, newline-stripped
StepLine == RStripNL(consumed'[Len(consumed')])

\* the i-th line read, newline-stripped
LineAt(i) == RStripNL(consumed[i])

\* the prefix a line starts with, None when it starts with neither
StyleOf(line) ==
    IF StartsWith(line, SlashStyle) THEN SlashStyle
    ELSE IF StartsWith(line, HashStyle) THEN HashStyle
    ELSE None

\* the style of the first prefixed line among raw lines
RECURSIVE FirstStyle(_)
FirstStyle(raws) ==
    IF raws = <<>> THEN None
    ELSE IF StyleOf(RStripNL(Head(raws))) # None THEN StyleOf(RStripNL(Head(raws)))
    ELSE FirstStyle(Tail(raws))

OtherStyle(style) == IF style = SlashStyle THEN HashStyle ELSE SlashStyle

\* no file is open: current_file is None or the empty path
NoFileOpen == current_file = None \/ current_file = <<>>

\* rule 3 of the new-file marker: the file-boundary position
AtBoundary ==
    \/ NoFileOpen
    \/ current_content = <<>>
    \/ current_content[Len(current_content)] = <<>>

\* the step leaves the open file, its content and the records alone
LineIgnored ==
    /\ files_to_process' = files_to_process
    /\ current_file' = current_file
    /\ current_content' = current_content

\* the step appends the line to the open file and does nothing else
LineAppended ==
    /\ files_to_process' = files_to_process
    /\ current_file' = current_file
    /\ current_content' = Append(current_content, StepLine)

----------------------------------------------------------------------------
(* C1 *)

\* the iff of C1: a line takes the new-file branch, and sets current_file to
\* its remainder, exactly when it starts with the active prefix, its remainder
\* does not start with "[", and the position is a file boundary
NewFileIff ==
    LET style == marker_style'
        qualifies == /\ style # None
                     /\ StartsWith(StepLine, style)
                     /\ ~StartsWith(DropFirst(StepLine, Len(style)), <<"[">>)
                     /\ AtBoundary
    IN /\ (branch' = "new") <=> qualifies
       /\ qualifies => /\ current_file' = DropFirst(StepLine, Len(style))
                       /\ current_content' = <<>>
       /\ ~qualifies => current_file' \in {current_file, None}

----------------------------------------------------------------------------
(* C2 *)

\* C2: the marker style is that of the first line of the stream that starts
\* with "// " or "# ", and once set never changes; a line starting with the
\* other prefix is appended to the open file, or ignored when none is open,
\* and neither opens a file nor emits a record.
C2_StyleFixedOnce ==
    [][LineStep =>
         /\ marker_style' = FirstStyle(consumed')
         /\ (marker_style # None => marker_style' = marker_style)
         /\ (marker_style' # None /\ StartsWith(StepLine, OtherStyle(marker_style')))
            => /\ branch' \in {"append", "ignore"}
               /\ IF NoFileOpen THEN LineIgnored ELSE LineAppended]_vars

\* under the "// " style a "# " line that follows a blank line became content
C2_Witness ==
    /\ branch = "append"
    /\ marker_style = SlashStyle
    /\ Len(current_content) >= 2
    /\ current_content[Len(current_content) - 1] = <<>>
    /\ StartsWith(current_content[Len(current_content)], HashStyle)

----------------------------------------------------------------------------
(* C3 *)

\* C3: with a file open, a line that starts with the active prefix followed by
\* "[" and ends with "]" emits exactly one record (open path, line without the
\* prefix), discards the accumulated content and leaves no file open; with no
\* file open every line that is not a new-file marker is ignored.
C3_Placeholder ==
    [][LineStep =>
         /\ (/\ ~NoFileOpen
             /\ StartsWith(StepLine, marker_style' \o <<"[">>)
             /\ EndsWith(StepLine, <<"]">>))
            => /\ files_to_process' =
                    Append(files_to_process,
                           <<current_file, DropFirst(StepLine, Len(marker_style'))>>)
               /\ current_file' = None
               /\ current_content' = <<>>
         /\ (current_file = None /\ branch' # "new") => LineIgnored]_vars

\* a file was opened, got a content line, was replaced by a placeholder, and
\* the line after the placeholder was ignored
C3_Witness ==
    /\ branch = "ignore"
    /\ Len(consumed) >= 4
    /\ origin # <<>>
    /\ origin[Len(origin)] = Len(consumed) - 3
    /\ LineAt(Len(consumed) - 2) = <<"x">>
    /\ StartsWith(LineAt(Len(consumed) - 1), marker_style \o <<"[">>)
    /\ files_to_process[Len(files_to_process)][2] = <<"[", "x", "]">>
    /\ current_file = None

----------------------------------------------------------------------------
(* C4 *)

\* C4: when a new-file marker closes an open file, the record emitted is the
\* open path with the join by "\n" of the accumulated lines but the last,
\* and that last line, the one before the marker, is blank: no other line is
\* left out.
C4_ClosedContent ==
    [][(LineStep /\ branch' = "new" /\ ~NoFileOpen) =>
         LET kept == IF current_content = <<>> THEN <<>>
                     ELSE SubSeq(current_content, 1, Len(current_content) - 1)
         IN /\ files_to_process' = Append(files_to_process, <<current_file, JoinNL(kept)>>)
            /\ current_content # <<>> =>
                 /\ current_content = Append(kept, <<>>)]_vars

\* a file with content "x", blank, blank was closed by a marker: the record
\* keeps the first blank line
C4_Witness ==
    /\ branch = "new"
    /\ files_to_process # <<>>
    /\ files_to_process[Len(files_to_process)][2] = <<"x", NL>>

----------------------------------------------------------------------------
(* C5 *)

\* C5: every record comes from one line that qualified as a new-file marker,
\* its path is that line's remainder after the prefix, and the records are in
\* the order of their marker lines (so no marker line has two records).
C5_RecordsFromMarkers ==
    /\ Len(origin) = Len(files_to_process)
    /\ \A i \in 1..Len(files_to_process) :
         /\ \E k \in 1..Len(markers) : markers[k] = origin[i]
         /\ origin[i] \in 1..Len(consumed)
         /\ StartsWith(LineAt(origin[i]), marker_style)
         /\ ~StartsWith(LineAt(origin[i]), marker_style \o <<"[">>)
         /\ files_to_process[i][1] = DropFirst(LineAt(origin[i]), Len(marker_style))
    /\ \A i, j \in 1..Len(origin) : i < j => origin[i] < origin[j]

\* records were returned of which one was emitted by a placeholder and the
\* last by the end of input
C5_Witness ==
    /\ pc = "done"
    /\ Len(files_to_process) >= 2
    /\ \E i \in 1..Len(files_to_process) : files_to_process[i][2] = <<"[", "x", "]">>
    /\ current_file # None

----------------------------------------------------------------------------
(* C6 *)

\* C6: at end of input a file that is still open is emitted as (open path,
\* join of all accumulated lines by "\n"), whether or not it has content, and
\* nothing else changes.
C6_LastFile ==
    [][EofStep =>
         IF NoFileOpen THEN files_to_process' = files_to_process
         ELSE files_to_process' =
                 Append(files_to_process, <<current_file, JoinNL(current_content)>>)]_vars

\* the input ended right after a marker: a record with empty content
C6_Witness ==
    /\ pc = "done"
    /\ current_file \notin {None, <<>>}
    /\ current_content = <<>>
    /\ files_to_process # <<>>
    /\ files_to_process[Len(files_to_process)] = <<current_file, <<>>>>

----------------------------------------------------------------------------
(* C7 *)

\* C7: as long as no line read starts with "// " or "# ", no record is
\* emitted, no file is open and no style is set; the function returns the
\* empty list.
C7_NoMarkersNoRecords ==
    (\A i \in 1..Len(consumed) : StyleOf(LineAt(i)) = None)
        => /\ files_to_process = <<>>
           /\ current_content = <<>>
           /\ marker_style = None

\* an input of two or more lines, none prefixed, was read to its end
C7_Witness ==
    /\ pc = "done"
    /\ Len(consumed) >= 2
    /\ \A i \in 1..Len(consumed) : StyleOf(LineAt(i)) = None
    /\ files_to_process = <<>>

----------------------------------------------------------------------------
(* C8 *)

\* C8: every record emitted has a path, and the path is not the empty string.
C8_PathNonEmpty ==
    \A i \in 1..Len(files_to_process) :
        /\ files_to_process[i][1] # None
        /\ files_to_process[i][1] # <<>>

\* the prefix alone ("// ") was read as a new-file marker, closing a file,
\* and the input ended
C8_Witness ==
    /\ pc = "done"
    /\ current_file = <<>>
    /\ markers # <<>>
    /\ LineAt(markers[Len(markers)]) = SlashStyle
    /\ files_to_process # <<>>

----------------------------------------------------------------------------
(* Vocabulary of the resolver properties *)

Manifests == {ConfigOrder[i] : i \in 1..Len(ConfigOrder)}

\* the index of the first record whose path is a manifest name, 0 when none is
FirstManifestIndex(records) ==
    IF \E i \in 1..Len(records) : records[i][1] \in Manifests
    THEN Least({i \in 1..Len(records) : records[i][1] \in Manifests})
    ELSE 0

\* the index of the first record of the manifest that comes first in the
\* priority order among those present, 0 when none is
PriorityManifestIndex(records) ==
    IF \E i \in 1..Len(records) : records[i][1] \in Manifests
    THEN LET rank == Least({r \in 1..Len(ConfigOrder) :
                               \E i \in 1..Len(records) : records[i][1] = ConfigOrder[r]})
         IN Least({i \in 1..Len(records) : records[i][1] = ConfigOrder[rank]})
    ELSE 0

\* the project names the repository's tests expect of the manifests of the
\* model, None where the manifest gives no name
TestedName(record) ==
    IF record = <<PackageJson, NpmProjectJson>> THEN NpmProject
    ELSE IF record = <<CargoToml, RustProjectToml>> THEN RustProject
    ELSE IF record = <<GoMod, GoProjectMod>> THEN GoProject
    ELSE IF record = <<PyprojectToml, PoetryProjectToml>> THEN PythonProject
    ELSE IF record = <<SetupPy, SetupProjectPy>> THEN SetupProject
    ELSE None

\* create_project has settled the name, none was given, and a manifest is
\* among the records
NameFromManifest ==
    /\ cpc \in {"named", "created"}
    /\ args_name = None
    /\ FirstManifestIndex(files) > 0

\* the records of test_project_name_priority, in its stream order
PriorityTestFiles ==
    << <<GoMod, GoProjectMod>>, <<PackageJson, NpmProjectJson>>,
       <<CargoToml, RustProjectToml>> >>

----------------------------------------------------------------------------
(* C9 *)

\* C9 as stated: with no explicit name the name is taken from the manifest
\* that comes first in the priority order package.json, Cargo.toml,
\* pyproject.toml, setup.py, go.mod, whatever the record order.
C9_PriorityOrder ==
    NameFromManifest =>
        LET record == files[PriorityManifestIndex(files)]
        IN TestedName(record) # None => project_name = TestedName(record)

----------------------------------------------------------------------------
(* C10 *)

----------------------------------------------------------------------------
(* C11 *)

\* C11: when an explicit name is given, create_project settles on exactly that
\* string, whatever the records hold: it is neither sanitized, nor replaced by
\* a manifest's name or a default name, no exception of the name extraction
\* is raised, and the directory created has that name.
C11_ExplicitName ==
    (args_name # None /\ cpc \notin {"idle", "start", "returned"}) =>
        /\ cpc # "raised"
        /\ project_name = args_name
        /\ cpc = "created" => args_name \in fs

\* the name "my app" was given with the records go.mod, package.json,
\* Cargo.toml, and the directory "my app" was created
C11_Witness ==
    /\ cpc = "created"
    /\ args_name = MyApp
    /\ files = PriorityTestFiles
    /\ project_name = MyApp
    /\ MyApp \in fs
    /\ GoProject \notin fs

----------------------------------------------------------------------------
(* Vocabulary of the find_project_name properties *)

\* a character sanitization keeps
ValidChar(c) == c \in WordChars \cup {"-", "."}

\* only word characters, "-" and ".", no "-" at either end, not empty
ValidName(n) ==
    /\ n # <<>>
    /\ \A i \in 1..Len(n) : ValidChar(n[i])
    /\ n[1] # "-"
    /\ n[Len(n)] # "-"

\* the positions of a name that survive the stripping of dashes: those of
\* the kept characters other than "-"
Solid(n) == {i \in 1..Len(n) : ValidChar(n[i]) /\ n[i] # "-"}

\* find_project_name has returned and its extractor had given a name
ReturnedFromName == fpc = "returned" /\ NameTruthy(extracted)

\* the name test_project_name_sanitization expects of "my project name"
MyProjectName ==
    <<"m", "y", "-", "p", "r", "o", "j", "e", "c", "t", "-", "n", "a",
     "m", "e">>

----------------------------------------------------------------------------
(* C12 *)

\* C12 as stated: every name find_project_name returns for a manifest that
\* gave a name consists only of word characters, "-" and ".", has no "-" at
\* either end and is not empty.
C12_Original == ReturnedFromName => ValidName(found_name)

\* C12 (amended): when the extractor gave a name, the result is that name
\* with every character other than word characters, "-" and "." replaced by
\* "-" and the dashes at both ends removed, which is a valid name; when
\* nothing is left the result is the default name, which is returned as it
\* is.  "rust@project!" gives "rust-project" and "my project name" gives
\* "my-project-name".
C12_Sanitized ==
    /\ ReturnedFromName =>
          IF Solid(extracted) = {} THEN found_name = generate_default_name
          ELSE /\ Len(found_name) =
                    Greatest(Solid(extracted)) - Least(Solid(extracted)) + 1
               /\ \A k \in 1..Len(found_name) :
                     LET c == extracted[Least(Solid(extracted)) + k - 1]
                     IN found_name[k] = IF ValidChar(c) THEN c ELSE "-"
               /\ ValidName(found_name)
    /\ (fpc = "returned" /\ manifest = <<CargoToml, RustSymbolsToml>>)
          => found_name = RustProject
    /\ (fpc = "returned" /\ manifest = <<PackageJson, SpacedNameJson>>)
          => found_name = MyProjectName

\* the Cargo.toml name "rust@project!" was returned as "rust-project"
C12_Witness ==
    /\ fpc = "returned"
    /\ manifest = <<CargoToml, RustSymbolsToml>>
    /\ Len(extracted) = Len(RustProject) + 1
    /\ found_name = RustProject

----------------------------------------------------------------------------
(* C13 *)

\* the pyproject.toml of the call as tomli parses it
PyprojectData == TomlLoads(manifest[2])

\* C13 as stated: for a pyproject.toml that parses, in which tool.poetry
\* gives no name (the table is absent, or present without a name key) and
\* project.name is a string, the extracted name is project.name.
C13_PoetryFallback ==
    (/\ fpc \in {"returned", "raised"}
     /\ manifest[1] = PyprojectToml
     /\ PyprojectData.ok
     /\ TomlKind(PyprojectData, <<ToolWord, PoetryWord, NameWord>>) = "absent"
     /\ TomlKind(PyprojectData, <<ProjectWord, NameWord>>) = "str")
    => extracted = TomlValue(PyprojectData, <<ProjectWord, NameWord>>)

----------------------------------------------------------------------------
(* C14 *)

\* C14 as stated: for every content of a recognized manifest a call of
\* find_project_name raises nothing, and returns a name: a non-empty str.
C14_NeverFails ==
    /\ fpc # "raised"
    /\ fpc = "returned" => IsStr(found_name) /\ found_name # <<>>

----------------------------------------------------------------------------
(* C15 *)

\* create_project has settled the name without an explicit name and without
\* a name from a manifest: no record is a manifest, or the manifest chosen
\* gives no name
NameByDefault ==
    /\ cpc = "named"
    /\ args_name = None
    /\ IF FirstManifestIndex(files) = 0 THEN TRUE
       ELSE TestedName(files[FirstManifestIndex(files)]) = None

\* C15: when no manifest record is found or the chosen manifest yields no
\* name, the name is the first of "project", "project 1", "project 2", ...
\* that does not exist: it does not exist and every earlier one does.
C15_DefaultName ==
    NameByDefault =>
        \E k \in 0..(MaxExisting + 1) :
            /\ project_name = DefaultCandidate(k)
            /\ project_name \notin fs
            /\ \A j \in 0..(k - 1) : DefaultCandidate(j) \in fs

\* with "project" and "project 1" in the directory and no manifest among
\* the records, the name is "project 2"
C15_Witness ==
    /\ cpc = "named"
    /\ args_name = None
    /\ files = << <<ReadmeMd, ReadmeText>> >>
    /\ {DefaultCandidate(0), DefaultCandidate(1)} \subseteq fs
    /\ project_name = DefaultCandidate(2)

----------------------------------------------------------------------------
(* C16 *)

\* find_project_name has been called on a go.mod and has ended
GoModDone == fpc \in {"returned", "raised"} /\ manifest[1] = GoMod

\* the first line of the go.mod of the call
GoFirstLine == SplitOn(manifest[2], NL)[1]

\* seg is the last "/"-delimited segment of path
IsLastSegment(seg, path) ==
    /\ \A i \in 1..Len(seg) : seg[i] # "/"
    /\ EndsWith(path, seg)
    /\ Len(path) > Len(seg) => path[Len(path) - Len(seg)] = "/"

\* what C16 says of a go.mod whose line `line` decides: the extracted name
\* is the last segment of the module path when the line starts with
\* "module ", and otherwise nothing is extracted and the default name is used
GoModRule(line) ==
    IF StartsWith(line, ModulePrefix)
    THEN IsLastSegment(extracted, Strip(DropFirst(line, Len(ModulePrefix))))
    ELSE extracted = None /\ found_name = generate_default_name

\* C16 as stated: the line that decides is the first line of the content.
C16_Original == GoModDone => GoModRule(GoFirstLine)

\* C16 (amended): the line that decides is the first line of the content
\* with the whitespace around it stripped; "module
\* github.com/user/go-project" gives "go-project".
C16_GoModule ==
    /\ GoModDone => GoModRule(Strip(GoFirstLine))
    /\ (GoModDone /\ manifest[2] = GoProjectMod)
          => extracted = GoProject /\ found_name = GoProject

\* "module github.com/user/go-project" gave "go-project"
C16_Witness ==
    /\ fpc = "returned"
    /\ manifest = <<GoMod, GoProjectMod>>
    /\ extracted = GoProject
    /\ found_name = GoProject

----------------------------------------------------------------------------
(* Vocabulary of the properties of main *)

\* the indices of the named input files that do not exist
MissingInputs == {i \in 1..Len(args_files) : args_files[i] \notin InputDir}

\* no step taken before create_project is called changes the directory
NothingCreatedBeforeCall == cpc' = "idle" => fs' = fs

----------------------------------------------------------------------------
(* C17 *)

\* C17: when every input was parsed and no record came of it, the next
\* step ends the run with the "No files to process" message and exit status
\* 1; create_project has not been called, so no name was resolved, and no
\* directory or file was created.
C17_NothingToProcess ==
    [][/\ (mpc = "check" /\ all_files = <<>>) => mpc' = "exited"
       /\ (mpc' = "exited" /\ MissingInputs = {} /\ all_files' = <<>>)
            => /\ stderr' = <<NoFilesToProcess>>
               /\ exit_status' = 1
               /\ cpc' = "idle"
               /\ project_name' = None
       /\ NothingCreatedBeforeCall]_vars

\* two input files were read, lines without a marker among them, and the
\* run ended with "No files to process"
C17_Witness ==
    /\ mpc = "exited"
    /\ Len(args_files) = 2
    /\ consumed # <<>>
    /\ all_files = <<>>
    /\ stderr = <<NoFilesToProcess>>
    /\ exit_status = 1
    /\ cpc = "idle"

----------------------------------------------------------------------------
(* C18 *)

\* C18: when a named input file does not exist, the run ends at the first
\* such file with exit status 1 and a message naming it, whatever the files
\* before it gave; create_project has not been called, and no directory or
\* file was created.
C18_InputNotFound ==
    [][/\ (mpc = "loop" /\ next_input \in MissingInputs) => mpc' = "exited"
       /\ (mpc' = "exited" /\ MissingInputs # {})
            => /\ stderr' = <<InputNotFound, args_files[Least(MissingInputs)]>>
               /\ exit_status' = 1
               /\ cpc' = "idle"
       /\ (mpc' \in {"loop", "parsing"}) => cpc' = "idle"
       /\ NothingCreatedBeforeCall]_vars

\* basic.txt gave records, nonexistent.txt was named after it, and the run
\* ended with the message naming nonexistent.txt
C18_Witness ==
    /\ mpc = "exited"
    /\ args_files = <<BasicTxt, NonexistentTxt>>
    /\ all_files # <<>>
    /\ stderr = <<InputNotFound, NonexistentTxt>>
    /\ exit_status = 1
    /\ cpc = "idle"

----------------------------------------------------------------------------
(* C19 *)

\* the new-file marker lines read so far whose remainder after the prefix
\* is not empty, as indices in `markers`
PathMarkers == {k \in 1..Len(markers) : Len(LineAt(markers[k])) > Len(marker_style)}

\* the files opened and not yet emitted: one while the loop runs with a file
\* open, none otherwise
OpenFiles == IF pc = "loop" /\ ~NoFileOpen THEN 1 ELSE 0

\* C19 as stated: the number of records returned equals the number of lines
\* that qualified as new-file markers.
C19_Original == pc = "done" => Len(files_to_process) = Len(markers)

\* C19 (amended): every new-file marker line with a non-empty remainder
\* opens a file that is emitted exactly once, by the next new-file marker,
\* by a placeholder marker or at end of input; a marker line that is the
\* prefix alone opens no file and gives no record.  At every point the
\* records emitted plus the file still open count the markers with a
\* non-empty remainder, and the records are those markers' files in order.
C19_MarkersEmittedOnce ==
    /\ Cardinality(PathMarkers) = Len(files_to_process) + OpenFiles
    /\ \A i \in 1..Len(origin) :
          /\ \E k \in PathMarkers : markers[k] = origin[i]
          /\ Cardinality({k \in PathMarkers : markers[k] <= origin[i]}) = i
    /\ pc = "done" => Len(files_to_process) = Cardinality(PathMarkers)

\* of three marker lines the second was the prefix alone; the first file was
\* emitted by a placeholder, the third at end of input
C19_Witness ==
    /\ pc = "done"
    /\ Len(markers) = 3
    /\ LineAt(markers[2]) = marker_style
    /\ Len(files_to_process) = 2
    /\ files_to_process[1][2] = <<"[", "x", "]">>
    /\ branch = "eof"

----------------------------------------------------------------------------
(* C20 *)

\* C20: every step of process_input leaves the records emitted so far in
\* place: they are a prefix of the records after the step, and a step emits
\* at most one record.
C20_AppendOnly ==
    [][/\ IsPrefix(files_to_process, files_to_process')
       /\ Len(files_to_process') <= Len(files_to_process) + 1]_vars

\* a placeholder marker emitted the second record, and the first record,
\* with an empty content, is still in place
C20_Witness ==
    /\ branch = "placeholder"
    /\ Len(files_to_process) = 2
    /\ files_to_process[1][2] = <<>>
    /\ files_to_process[2][2] = <<"[", "x", "]">>

----------------------------------------------------------------------------
(* C21 *)

\* the line of the step is "// [...]"
BracketLine ==
    StartsWith(StepLine, SlashStyle \o <<"[">>) /\ EndsWith(StepLine, <<"]">>)

\* C21 as stated: in the legacy process_input a line "// [...]" read while a
\* file is open that has accumulated content gives that file's record the
\* bracketed text as its content, and leaves no file open (so that no file
\* with a path starting with "[" is opened).
C21_LegacyPlaceholder ==
    [][(LineStep /\ ~NoFileOpen /\ current_content # <<>> /\ BracketLine) =>
         /\ files_to_process' =
               Append(files_to_process, <<current_file, DropFirst(StepLine, 3)>>)
         /\ current_file' = None]_vars

----------------------------------------------------------------------------
(* C22 *)

\* os.path.normpath of a relative path, as a sequence of segments: "" and
\* "." are dropped, ".." removes the segment before it or, when there is
\* none, stays
RECURSIVE Resolved(_, _)
Resolved(segments, done) ==
    IF segments = <<>> THEN done
    ELSE IF Head(segments) \in {<<>>, <<".">>}
    THEN Resolved(Tail(segments), done)
    ELSE IF Head(segments) # <<".", ".">>
    THEN Resolved(Tail(segments), Append(done, Head(segments)))
    ELSE IF done = <<>> \/ done[Len(done)] = <<".", ".">>
    THEN Resolved(Tail(segments), Append(done, Head(segments)))
    ELSE Resolved(Tail(segments), AllButLast(done))

\* the entry `path` is the directory `dir` of the working directory, or
\* lies below it
Inside(dir, path) ==
    /\ ~StartsWith(path, <<"/">>)
    /\ IsPrefix(Resolved(SplitOn(dir, "/"), <<>>), Resolved(SplitOn(path, "/"), <<>>))

\* C22 as stated: once create_project has written the records, every entry
\* of the directory it was run in either was there before (an entry
\* "project") or is the project directory or lies inside it.
C22_WritesInside ==
    cpc = "written" =>
        \A entry \in fs : entry = ProjectBase \/ Inside(project_name, entry)

====
